---- MODULE Spec2Model ----
(***************************************************************************)
(* Migration / rollback generation of supabase/migrations_refactored:      *)
(*   generate_migrations.py  (catalog MIGRATIONS -> forward .sql files)    *)
(*   generate_rollbacks.py   (forward .sql files -> rollbacks/down_*.sql   *)
(*                            and rollbacks/rollback_all.sql)              *)
(* A text (file content, file name, SQL) is a sequence of one-character    *)
(* strings, so that substring tests and regular expressions are computed   *)
(* character by character, as Python computes them.                        *)
(***************************************************************************)
EXTENDS Integers, Sequences, FiniteSets, TLC

\* ------------------------------------------------------------------------
\* Character classes of Python's re module
\* ------------------------------------------------------------------------
Upper ==
    {"A","B","C","D","E","F","G","H","I","J","K","L","M",
     "N","O","P","Q","R","S","T","U","V","W","X","Y","Z"}

Lower ==
    {"a","b","c","d","e","f","g","h","i","j","k","l","m",
     "n","o","p","q","r","s","t","u","v","w","x","y","z"}

Digit ==
    {"0","1","2","3","4","5","6","7","8","9"}

\* \w
WordChar ==
    Upper \cup Lower \cup Digit \cup {"_"}

\* \s
SpaceChar ==
    {" ", "\n", "\t"}

\* the characters excluded by the class [^";\s]
ExtNameStop ==
    {"\"", ";"} \cup SpaceChar

\* ------------------------------------------------------------------------
\* Text primitives
\* ------------------------------------------------------------------------
\* p occurs in s at index i
MatchAt(s, p, i) ==
    /\ i >= 1
    /\ i + Len(p) - 1 <= Len(s)
    /\ \A k \in 1..Len(p) : s[i + k - 1] = p[k]

\* Python: p in s
Contains(s, p) ==
    \E i \in 1..(Len(s) + 1) : MatchAt(s, p, i)

\* Python: s.endswith(p)
EndsWith(s, p) ==
    Len(p) <= Len(s) /\ MatchAt(s, p, Len(s) - Len(p) + 1)

\* first index >= i whose character is not in class (Len(s)+1 if none):
\* the end of a greedy run class+ / class* started at i
RECURSIVE RunEnd(_, _, _)
RunEnd(s, i, class) ==
    IF i <= Len(s) /\ s[i] \in class THEN RunEnd(s, i + 1, class) ELSE i

\* the same for a negated class [^...]
RECURSIVE RunEndNot(_, _, _)
RunEndNot(s, i, class) ==
    IF i <= Len(s) /\ s[i] \notin class THEN RunEndNot(s, i + 1, class) ELSE i

IsWordAt(s, i) ==
    i >= 1 /\ i <= Len(s) /\ s[i] \in WordChar

\* the group (\w+) matched greedily at index i
WordAt(s, i) ==
    SubSeq(s, i, RunEnd(s, i, WordChar) - 1)

RECURSIVE Concat(_)
Concat(ss) ==
    IF ss = <<>> THEN <<>> ELSE Head(ss) \o Concat(Tail(ss))

MinOf(P) ==
    CHOOSE i \in P : \A j \in P : i <= j

MaxOf(P) ==
    CHOOSE i \in P : \A j \in P : i >= j

\* a failed re.search (None); g1, g2 are match.group(1), match.group(2)
NoMatch ==
    [ok |-> FALSE, g1 |-> <<>>, g2 |-> <<>>]

\* re.search(pattern, s): the match at the leftmost index where the
\* pattern matches; M(s, i) is the pattern anchored at index i
reSearch(s, M(_, _)) ==
    LET P == {i \in 1..Len(s) : M(s, i).ok}
    IN  IF P = {} THEN NoMatch ELSE M(s, MinOf(P))

\* pattern  <lit>(\w+)  anchored at i
LitWord(s, lit, i) ==
    IF MatchAt(s, lit, i) /\ IsWordAt(s, i + Len(lit))
    THEN [ok |-> TRUE, g1 |-> WordAt(s, i + Len(lit)), g2 |-> <<>>]
    ELSE NoMatch

\* ------------------------------------------------------------------------
\* generate_rollbacks.py: extract_object_info
\* ------------------------------------------------------------------------
\* Python's None for the dependent object; (\w+) never matches the empty
\* text, so the empty text stands for None without ambiguity
None ==
    <<>>

\* r'CREATE EXTENSION IF NOT EXISTS "?([^";\s]+)"?' anchored at i
reExtension(s, i) ==
    LET lit == <<"C","R","E","A","T","E"," ","E","X","T","E","N","S","I","O","N"," ","I","F"," ","N","O","T"," ","E","X","I","S","T","S"," ">>
        b   == i + Len(lit)
        \* "? is greedy: it takes the quote when the rest can still match
        g   == IF b <= Len(s) /\ s[b] = "\"" /\ RunEndNot(s, b + 1, ExtNameStop) > b + 1
               THEN b + 1 ELSE b
    IN  IF MatchAt(s, lit, i) /\ RunEndNot(s, g, ExtNameStop) > g
        THEN [ok |-> TRUE, g1 |-> SubSeq(s, g, RunEndNot(s, g, ExtNameStop) - 1), g2 |-> <<>>]
        ELSE NoMatch

\* r'CREATE TABLE IF NOT EXISTS (\w+)' anchored at i
reTable(s, i) ==
    LitWord(s, <<"C","R","E","A","T","E"," ","T","A","B","L","E"," ","I","F"," ","N","O","T"," ","E","X","I","S","T","S"," ">>, i)

\* r'CREATE INDEX IF NOT EXISTS (\w+)' anchored at i
reIndex(s, i) ==
    LitWord(s, <<"C","R","E","A","T","E"," ","I","N","D","E","X"," ","I","F"," ","N","O","T"," ","E","X","I","S","T","S"," ">>, i)

\* r'CREATE (?:OR REPLACE )?FUNCTION (\w+)' anchored at i
reFunction(s, i) ==
    LET withOpt == LitWord(s, <<"C","R","E","A","T","E"," ","O","R"," ","R","E","P","L","A","C","E"," ","F","U","N","C","T","I","O","N"," ">>, i)
    IN  IF withOpt.ok THEN withOpt ELSE LitWord(s, <<"C","R","E","A","T","E"," ","F","U","N","C","T","I","O","N"," ">>, i)

\* r'CREATE TRIGGER (\w+).*ON (\w+)' with re.DOTALL, anchored at i.
\* (\w+) is greedy and gives characters back only if no "ON \w" is left
\* after it; .* is greedy over every character, newlines included, so the
\* second group starts after the LAST "ON " that a word character follows.
reTrigger(s, i) ==
    LET lit  == <<"C","R","E","A","T","E"," ","T","R","I","G","G","E","R"," ">>
        b    == i + Len(lit)
        e    == RunEnd(s, b, WordChar)
        ons  == {j \in 1..Len(s) : MatchAt(s, <<"O","N"," ">>, j) /\ IsWordAt(s, j + 3)}
        \* ends of group 1 after which an "ON \w" still follows
        ends == {x \in (b + 1)..e : \E j \in ons : j >= x}
    IN  IF MatchAt(s, lit, i) /\ ends # {}
        THEN [ok |-> TRUE,
              g1 |-> SubSeq(s, b, MaxOf(ends) - 1),
              g2 |-> WordAt(s, MaxOf(ons) + 3)]
        ELSE NoMatch

\* r'CREATE (?:MATERIALIZED )?VIEW (?:IF NOT EXISTS )?(\w+)' anchored at i
reView(s, i) ==
    LET head == IF MatchAt(s, <<"C","R","E","A","T","E"," ","M","A","T","E","R","I","A","L","I","Z","E","D"," ","V","I","E","W"," ">>, i)
                THEN <<"C","R","E","A","T","E"," ","M","A","T","E","R","I","A","L","I","Z","E","D"," ","V","I","E","W"," ">>
                ELSE <<"C","R","E","A","T","E"," ","V","I","E","W"," ">>
        b    == i + Len(head)
        opt  == <<"I","F"," ","N","O","T"," ","E","X","I","S","T","S"," ">>
    IN  IF ~MatchAt(s, head, i) THEN NoMatch
        ELSE IF MatchAt(s, opt, b) /\ IsWordAt(s, b + Len(opt))
        THEN [ok |-> TRUE, g1 |-> WordAt(s, b + Len(opt)), g2 |-> <<>>]
        ELSE IF IsWordAt(s, b)
        THEN [ok |-> TRUE, g1 |-> WordAt(s, b), g2 |-> <<>>]
        ELSE NoMatch

\* r'INSERT INTO (\w+)' anchored at i
reInsert(s, i) ==
    LitWord(s, <<"I","N","S","E","R","T"," ","I","N","T","O"," ">>, i)

Obj(t, n, d) ==
    [obj_type |-> t, obj_name |-> n, dependent |-> d]

\* the final return of extract_object_info
UnknownObj ==
    Obj("UNKNOWN", <<"u","n","k","n","o","w","n">>, None)

extractSeed(s) ==
    LET m == reSearch(s, reInsert)
    IN  IF Contains(s, <<"I","N","S","E","R","T"," ","I","N","T","O">>) /\ m.ok
        THEN Obj("SEED", m.g1, None)
        ELSE UnknownObj

extractView(s) ==
    LET m == reSearch(s, reView)
    IN  IF (Contains(s, <<"C","R","E","A","T","E"," ","V","I","E","W">>) \/ Contains(s, <<"C","R","E","A","T","E"," ","M","A","T","E","R","I","A","L","I","Z","E","D"," ","V","I","E","W">>)) /\ m.ok
        THEN Obj(IF Contains(s, <<"M","A","T","E","R","I","A","L","I","Z","E","D">>) THEN "MATERIALIZED VIEW" ELSE "VIEW",
                 m.g1, None)
        ELSE extractSeed(s)

extractTrigger(s) ==
    LET m == reSearch(s, reTrigger)
    IN  IF Contains(s, <<"C","R","E","A","T","E"," ","T","R","I","G","G","E","R">>) /\ m.ok
        THEN Obj("TRIGGER", m.g1, m.g2)
        ELSE extractView(s)

extractFunction(s) ==
    LET m == reSearch(s, reFunction)
    IN  IF (Contains(s, <<"C","R","E","A","T","E"," ","O","R"," ","R","E","P","L","A","C","E"," ","F","U","N","C","T","I","O","N">>) \/ Contains(s, <<"C","R","E","A","T","E"," ","F","U","N","C","T","I","O","N">>)) /\ m.ok
        THEN Obj("FUNCTION", m.g1, None)
        ELSE extractTrigger(s)

extractIndex(s) ==
    LET m == reSearch(s, reIndex)
    IN  IF Contains(s, <<"C","R","E","A","T","E"," ","I","N","D","E","X">>) /\ m.ok
        THEN Obj("INDEX", m.g1, None)
        ELSE extractFunction(s)

extractTable(s) ==
    LET m == reSearch(s, reTable)
    IN  IF Contains(s, <<"C","R","E","A","T","E"," ","T","A","B","L","E">>) /\ m.ok
        THEN Obj("TABLE", m.g1, None)
        ELSE extractIndex(s)

\* extract_object_info(sql_content): the chain of if-blocks, each falling
\* through to the next when its substring test or its regex fails
extract_object_info(sql_content) ==
    LET m == reSearch(sql_content, reExtension)
    IN  IF Contains(sql_content, <<"C","R","E","A","T","E"," ","E","X","T","E","N","S","I","O","N">>) /\ m.ok
        THEN Obj("EXTENSION", m.g1, None)
        ELSE extractTable(sql_content)

\* ------------------------------------------------------------------------
\* generate_rollbacks.py: generate_rollback
\* ------------------------------------------------------------------------
\* the exception str.format raises when a template has more {} than
\* arguments; no text has an element of more than one character
IndexError ==
    <<"IndexError">>

\* templates whose seed entry deletes the rows of the table
rollback_templates_seedDelete ==
    [EXTENSION |-> << <<"D","R","O","P"," ","E","X","T","E","N","S","I","O","N"," ","I","F"," ","E","X","I","S","T","S"," ","\"">>, <<"\""," ","C","A","S","C","A","D","E",";">> >>,
     TABLE     |-> << <<"D","R","O","P"," ","T","A","B","L","E"," ","I","F"," ","E","X","I","S","T","S"," ">>, <<" ","C","A","S","C","A","D","E",";">> >>,
     INDEX     |-> << <<"D","R","O","P"," ","I","N","D","E","X"," ","I","F"," ","E","X","I","S","T","S"," ">>, <<";">> >>,
     FUNCTION  |-> << <<"D","R","O","P"," ","F","U","N","C","T","I","O","N"," ","I","F"," ","E","X","I","S","T","S"," ">>, <<" ","C","A","S","C","A","D","E",";">> >>,
     TRIGGER   |-> << <<"D","R","O","P"," ","T","R","I","G","G","E","R"," ","I","F"," ","E","X","I","S","T","S"," ">>, <<" ","O","N"," ">>, <<";">> >>,
     VIEW      |-> << <<"D","R","O","P"," ","V","I","E","W"," ","I","F"," ","E","X","I","S","T","S"," ">>, <<" ","C","A","S","C","A","D","E",";">> >>,
     MATERIALIZED_VIEW |-> << <<"D","R","O","P"," ","M","A","T","E","R","I","A","L","I","Z","E","D"," ","V","I","E","W"," ","I","F"," ","E","X","I","S","T","S"," ">>, <<" ","C","A","S","C","A","D","E",";">> >>,
     SEED      |-> << <<"D","E","L","E","T","E"," ","F","R","O","M"," ">>, <<";">> >>]

\* rollback_templates: each template as the texts around its {} fields
rollback_templates ==
    [EXTENSION |-> << <<"D","R","O","P"," ","E","X","T","E","N","S","I","O","N"," ","I","F"," ","E","X","I","S","T","S"," ","\"">>, <<"\""," ","C","A","S","C","A","D","E",";">> >>,
     TABLE     |-> << <<"D","R","O","P"," ","T","A","B","L","E"," ","I","F"," ","E","X","I","S","T","S"," ">>, <<" ","C","A","S","C","A","D","E",";">> >>,
     INDEX     |-> << <<"D","R","O","P"," ","I","N","D","E","X"," ","I","F"," ","E","X","I","S","T","S"," ">>, <<";">> >>,
     FUNCTION  |-> << <<"D","R","O","P"," ","F","U","N","C","T","I","O","N"," ","I","F"," ","E","X","I","S","T","S"," ">>, <<" ","C","A","S","C","A","D","E",";">> >>,
     TRIGGER   |-> << <<"D","R","O","P"," ","T","R","I","G","G","E","R"," ","I","F"," ","E","X","I","S","T","S"," ">>, <<" ","O","N"," ">>, <<";">> >>,
     VIEW      |-> << <<"D","R","O","P"," ","V","I","E","W"," ","I","F"," ","E","X","I","S","T","S"," ">>, <<" ","C","A","S","C","A","D","E",";">> >>,
     \* key 'MATERIALIZED VIEW'
     MATERIALIZED_VIEW |-> << <<"D","R","O","P"," ","M","A","T","E","R","I","A","L","I","Z","E","D"," ","V","I","E","W"," ","I","F"," ","E","X","I","S","T","S"," ">>, <<" ","C","A","S","C","A","D","E",";">> >>,
     SEED      |-> << <<"-","-"," ","M","a","n","u","a","l"," ","r","o","l","l","b","a","c","k"," ","r","e","q","u","i","r","e","d"," ","f","o","r"," ","s","e","e","d"," ","d","a","t","a"," ","i","n"," ","t","a","b","l","e"," ">>, <<>> >>]

\* the record field that holds the template of obj_type
TemplateKey(obj_type) ==
    IF obj_type = "MATERIALIZED VIEW" THEN "MATERIALIZED_VIEW" ELSE obj_type

\* the characters of an object type, for the f-string of the else branch
TypeText(obj_type) ==
    CASE obj_type = "EXTENSION" -> <<"E","X","T","E","N","S","I","O","N">>
      [] obj_type = "TABLE" -> <<"T","A","B","L","E">>
      [] obj_type = "INDEX" -> <<"I","N","D","E","X">>
      [] obj_type = "FUNCTION" -> <<"F","U","N","C","T","I","O","N">>
      [] obj_type = "TRIGGER" -> <<"T","R","I","G","G","E","R">>
      [] obj_type = "VIEW" -> <<"V","I","E","W">>
      [] obj_type = "MATERIALIZED VIEW" -> <<"M","A","T","E","R","I","A","L","I","Z","E","D"," ","V","I","E","W">>
      [] obj_type = "SEED" -> <<"S","E","E","D">>
      [] OTHER -> <<"U","N","K","N","O","W","N">>

\* template.format(*args): fields filled left to right, surplus arguments
\* ignored, IndexError when the arguments run out
RECURSIVE FormatPos(_, _)
FormatPos(parts, args) ==
    IF Len(parts) = 1 THEN parts[1]
    ELSE IF args = <<>> THEN IndexError
    ELSE LET rest == FormatPos(Tail(parts), Tail(args))
         IN  IF rest = IndexError THEN IndexError
             ELSE parts[1] \o args[1] \o rest

\* a renderer without the else branch: the lookup of a type that has
\* no template raises
generate_rollback_noFallback(obj_type, obj_name, dependent) ==
    IF obj_type = "TRIGGER" /\ dependent # None
    THEN FormatPos(rollback_templates[TemplateKey(obj_type)], <<obj_name, dependent>>)
    ELSE IF TemplateKey(obj_type) \in DOMAIN rollback_templates
    THEN FormatPos(rollback_templates[TemplateKey(obj_type)], <<obj_name>>)
    ELSE IndexError

generate_rollback(obj_type, obj_name, dependent) ==
    IF obj_type = "TRIGGER" /\ dependent # None
    THEN FormatPos(rollback_templates[TemplateKey(obj_type)], <<obj_name, dependent>>)
    ELSE IF TemplateKey(obj_type) \in DOMAIN rollback_templates
    THEN FormatPos(rollback_templates[TemplateKey(obj_type)], <<obj_name>>)
    ELSE <<"-","-"," ","T","O","D","O",":"," ","M","a","n","u","a","l"," ","r","o","l","l","b","a","c","k"," ","r","e","q","u","i","r","e","d"," ","f","o","r"," ">> \o TypeText(obj_type) \o <<" ">> \o obj_name

\* r'^-- (.+)$' with re.MULTILINE, anchored at i: a line that starts with
\* "-- " and has at least one more character; . stops at a newline
reDescription_at(s, i) ==
    LET b == i + 3
        e == RunEndNot(s, b, {"\n"})
    IN  IF (i = 1 \/ s[i - 1] = "\n") /\ MatchAt(s, <<"-","-"," ">>, i) /\ e > b
        THEN [ok |-> TRUE, g1 |-> SubSeq(s, b, e - 1), g2 |-> <<>>]
        ELSE NoMatch

reDescription(s) ==
    reSearch(s, reDescription_at)

\* ------------------------------------------------------------------------
\* generate_migrations.py: templates and generate_migration
\* ------------------------------------------------------------------------
\* the exception str.format(**content) raises for a {key} that content
\* does not hold
KeyError ==
    <<"KeyError">>

\* a template is its literal texts, each followed by the {key} after it
\* (key "" after the last literal)
Part(lit, key) ==
    [lit |-> lit, key |-> key]

EXTENSION_TEMPLATE ==
    << Part(<<"-","-"," ">>, "description"),
       Part(<<"\n","-","-"," ">>, "details"),
       Part(<<"\n","C","R","E","A","T","E"," ","E","X","T","E","N","S","I","O","N"," ","I","F"," ","N","O","T"," ","E","X","I","S","T","S"," ","\"">>, "extension"),
       Part(<<"\"",";">>, "") >>

\* a table template that leaves out IF NOT EXISTS
TABLE_TEMPLATE_plain ==
    << Part(<<"-","-"," ">>, "description"),
       Part(<<"\n","C","R","E","A","T","E"," ","T","A","B","L","E"," ">>, "table_name"),
       Part(<<" ","(","\n">>, "columns"),
       Part(<<"\n",")",";","\n","\n","-","-"," ","A","d","d"," ","t","a","b","l","e"," ","c","o","m","m","e","n","t","\n","C","O","M","M","E","N","T"," ","O","N"," ","T","A","B","L","E"," ">>, "table_name"),
       Part(<<" ","I","S"," ","'">>, "comment"),
       Part(<<"'",";">>, "") >>

TABLE_TEMPLATE ==
    << Part(<<"-","-"," ">>, "description"),
       Part(<<"\n","C","R","E","A","T","E"," ","T","A","B","L","E"," ","I","F"," ","N","O","T"," ","E","X","I","S","T","S"," ">>, "table_name"),
       Part(<<" ","(","\n">>, "columns"),
       Part(<<"\n",")",";","\n","\n","-","-"," ","A","d","d"," ","t","a","b","l","e"," ","c","o","m","m","e","n","t","\n","C","O","M","M","E","N","T"," ","O","N"," ","T","A","B","L","E"," ">>, "table_name"),
       Part(<<" ","I","S"," ","'">>, "comment"),
       Part(<<"'",";">>, "") >>

INDEX_TEMPLATE ==
    << Part(<<"-","-"," ">>, "description"),
       Part(<<"\n","C","R","E","A","T","E"," ","I","N","D","E","X"," ","I","F"," ","N","O","T"," ","E","X","I","S","T","S"," ">>, "index_name"),
       Part(<<" ","O","N"," ">>, "table_name"),
       Part(<<>>, "index_def"),
       Part(<<";">>, "") >>

FUNCTION_TEMPLATE ==
    << Part(<<"-","-"," ">>, "description"),
       Part(<<"\n","C","R","E","A","T","E"," ","O","R"," ","R","E","P","L","A","C","E"," ","F","U","N","C","T","I","O","N"," ">>, "function_name"),
       Part(<<"\n">>, "function_body"),
       Part(<<>>, "") >>

TRIGGER_TEMPLATE ==
    << Part(<<"-","-"," ">>, "description"),
       Part(<<"\n","C","R","E","A","T","E"," ","T","R","I","G","G","E","R"," ">>, "trigger_name"),
       Part(<<"\n"," "," "," "," ">>, "trigger_timing"),
       Part(<<" ">>, "trigger_event"),
       Part(<<" ","O","N"," ">>, "table_name"),
       Part(<<"\n"," "," "," "," ","F","O","R"," ","E","A","C","H"," ","R","O","W"," ","E","X","E","C","U","T","E"," ","F","U","N","C","T","I","O","N"," ">>, "function_name"),
       Part(<<"(",")",";">>, "") >>

\* template.format(**content): every {key} replaced by content[key],
\* keys of content the template does not use ignored, KeyError when the
\* template names a key content lacks
RECURSIVE Format(_, _)
Format(template, content) ==
    IF template = <<>> THEN <<>>
    ELSE LET p    == Head(template)
             rest == Format(Tail(template), content)
         IN  IF p.key # "" /\ p.key \notin DOMAIN content THEN KeyError
             ELSE IF rest = KeyError THEN KeyError
             ELSE p.lit \o (IF p.key = "" THEN <<>> ELSE content[p.key]) \o rest

\* the characters of migration['type'], for the f-string of the else branch
KindText(type) ==
    CASE type = "view" -> <<"v","i","e","w">>
      [] type = "materialized_view" -> <<"m","a","t","e","r","i","a","l","i","z","e","d","_","v","i","e","w">>
      [] type = "seed" -> <<"s","e","e","d">>
      [] type = "extension" -> <<"e","x","t","e","n","s","i","o","n">>
      [] type = "table" -> <<"t","a","b","l","e">>
      [] type = "index" -> <<"i","n","d","e","x">>
      [] type = "function" -> <<"f","u","n","c","t","i","o","n">>
      [] type = "trigger" -> <<"t","r","i","g","g","e","r">>

generate_migration(migration) ==
    IF migration.type = "extension" THEN Format(EXTENSION_TEMPLATE, migration.content)
    ELSE IF migration.type = "table" THEN Format(TABLE_TEMPLATE, migration.content)
    ELSE IF migration.type = "index" THEN Format(INDEX_TEMPLATE, migration.content)
    ELSE IF migration.type = "function" THEN Format(FUNCTION_TEMPLATE, migration.content)
    ELSE IF migration.type = "trigger" THEN Format(TRIGGER_TEMPLATE, migration.content)
    ELSE <<"-","-"," ","T","O","D","O",":"," ","I","m","p","l","e","m","e","n","t"," ">> \o KindText(migration.type) \o <<" ","m","i","g","r","a","t","i","o","n">>

\* ------------------------------------------------------------------------
\* Catalog entries (MIGRATIONS): entries of the shape of the source's, with
\* shorter texts, and entries of the kinds the source lists no entry for
\* ------------------------------------------------------------------------
Migration(number, name, type, content) ==
    [number |-> number, name |-> name, type |-> type, content |-> content]

ExtUuid ==
    Migration(<<"0","0","1">>, <<"e","n","a","b","l","e","_","u","u","i","d","_","e","x","t","e","n","s","i","o","n">>, "extension",
        [extension |-> <<"u","u","i","d","-","o","s","s","p">>,
         description |-> <<"E","n","a","b","l","e"," ","U","U","I","D"," ","g","e","n","e","r","a","t","i","o","n"," ","e","x","t","e","n","s","i","o","n">>,
         details |-> <<"R","e","q","u","i","r","e","d"," ","f","o","r"," ","p","r","i","m","a","r","y"," ","k","e","y"," ","g","e","n","e","r","a","t","i","o","n">>])

ExtVector ==
    Migration(<<"0","0","3">>, <<"e","n","a","b","l","e","_","p","g","v","e","c","t","o","r","_","e","x","t","e","n","s","i","o","n">>, "extension",
        [extension |-> <<"v","e","c","t","o","r">>,
         description |-> <<"E","n","a","b","l","e"," ","v","e","c","t","o","r"," ","s","i","m","i","l","a","r","i","t","y"," ","s","e","a","r","c","h"," ","e","x","t","e","n","s","i","o","n">>,
         details |-> <<"R","e","q","u","i","r","e","d"," ","f","o","r"," ","e","m","b","e","d","d","i","n","g","s">>])

TableSectors ==
    Migration(<<"0","1","2">>, <<"c","r","e","a","t","e","_","s","e","c","t","o","r","s","_","t","a","b","l","e">>, "table",
        [table_name |-> <<"s","e","c","t","o","r","s">>,
         description |-> <<"C","r","e","a","t","e"," ","s","e","c","t","o","r","s"," ","l","o","o","k","u","p"," ","t","a","b","l","e">>,
         comment |-> <<"M","a","r","k","e","t"," ","s","e","c","t","o","r","s">>,
         columns |-> <<" "," "," "," ","i","d"," ","U","U","I","D"," ","P","R","I","M","A","R","Y"," ","K","E","Y"," ","D","E","F","A","U","L","T"," ","g","e","n","_","r","a","n","d","o","m","_","u","u","i","d","(",")",",","\n"," "," "," "," ","s","e","c","t","o","r","_","n","a","m","e"," ","V","A","R","C","H","A","R","(","1","0","0",")"," ","N","O","T"," ","N","U","L","L"," ","U","N","I","Q","U","E">>])

\* a table declared with its schema
TableQualified ==
    Migration(<<"0","1","3">>, <<"c","r","e","a","t","e","_","c","a","c","h","e","_","s","t","o","r","e","_","t","a","b","l","e">>, "table",
        [table_name |-> <<"p","u","b","l","i","c",".","c","a","c","h","e","_","s","t","o","r","e">>,
         description |-> <<"C","r","e","a","t","e"," ","d","a","t","a","b","a","s","e"," ","c","a","c","h","e"," ","s","t","o","r","e"," ","t","a","b","l","e">>,
         comment |-> <<"S","i","m","p","l","e"," ","k","e","y","-","v","a","l","u","e"," ","c","a","c","h","e">>,
         columns |-> <<" "," "," "," ","k","e","y"," ","V","A","R","C","H","A","R","(","2","5","5",")"," ","P","R","I","M","A","R","Y"," ","K","E","Y">>])

IndexSectors ==
    Migration(<<"0","3","1">>, <<"c","r","e","a","t","e","_","s","e","c","t","o","r","s","_","n","a","m","e","_","i","n","d","e","x">>, "index",
        [index_name |-> <<"i","d","x","_","s","e","c","t","o","r","s","_","n","a","m","e">>,
         table_name |-> <<"s","e","c","t","o","r","s">>,
         index_def |-> <<"(","s","e","c","t","o","r","_","n","a","m","e",")">>,
         description |-> <<"C","r","e","a","t","e"," ","i","n","d","e","x"," ","o","n"," ","s","e","c","t","o","r"," ","n","a","m","e">>])

FunctionTouch ==
    Migration(<<"0","4","1">>, <<"c","r","e","a","t","e","_","t","o","u","c","h","_","f","u","n","c","t","i","o","n">>, "function",
        [function_name |-> <<"t","o","u","c","h","_","u","p","d","a","t","e","d","_","a","t">>,
         function_body |-> <<"(",")"," ","R","E","T","U","R","N","S"," ","t","r","i","g","g","e","r"," ","A","S"," ","$","$"," ","B","E","G","I","N"," ","N","E","W",".","u","p","d","a","t","e","d","_","a","t"," ","="," ","N","O","W","(",")",";"," ","R","E","T","U","R","N"," ","N","E","W",";"," ","E","N","D"," ","$","$"," ","L","A","N","G","U","A","G","E"," ","p","l","p","g","s","q","l",";">>,
         description |-> <<"C","r","e","a","t","e"," ","u","p","d","a","t","e","d","_","a","t"," ","f","u","n","c","t","i","o","n">>])

\* a function whose body creates a table
FunctionAudit ==
    Migration(<<"0","4","2">>, <<"c","r","e","a","t","e","_","a","u","d","i","t","_","f","u","n","c","t","i","o","n">>, "function",
        [function_name |-> <<"e","n","s","u","r","e","_","a","u","d","i","t">>,
         function_body |-> <<"(",")"," ","R","E","T","U","R","N","S"," ","v","o","i","d"," ","A","S"," ","$","$"," ","B","E","G","I","N"," ","C","R","E","A","T","E"," ","T","A","B","L","E"," ","I","F"," ","N","O","T"," ","E","X","I","S","T","S"," ","a","u","d","i","t","_","l","o","g"," ","(","i","d"," ","I","N","T",")",";"," ","E","N","D"," ","$","$"," ","L","A","N","G","U","A","G","E"," ","p","l","p","g","s","q","l",";">>,
         description |-> <<"C","r","e","a","t","e"," ","a","u","d","i","t"," ","f","u","n","c","t","i","o","n">>])

TriggerTouch ==
    Migration(<<"0","5","1">>, <<"c","r","e","a","t","e","_","s","e","c","t","o","r","s","_","t","o","u","c","h","_","t","r","i","g","g","e","r">>, "trigger",
        [trigger_name |-> <<"t","r","g","_","s","e","c","t","o","r","s","_","t","o","u","c","h">>,
         trigger_timing |-> <<"B","E","F","O","R","E">>,
         trigger_event |-> <<"U","P","D","A","T","E">>,
         table_name |-> <<"s","e","c","t","o","r","s">>,
         function_name |-> <<"t","o","u","c","h","_","u","p","d","a","t","e","d","_","a","t">>,
         description |-> <<"C","r","e","a","t","e"," ","u","p","d","a","t","e","d","_","a","t"," ","t","r","i","g","g","e","r">>])

ViewDaily ==
    Migration(<<"0","6","1">>, <<"c","r","e","a","t","e","_","d","a","i","l","y","_","v","i","e","w">>, "view",
        [view_name |-> <<"v","_","d","a","i","l","y">>,
         description |-> <<"C","r","e","a","t","e"," ","d","a","i","l","y"," ","v","i","e","w">>])

MatViewStats ==
    Migration(<<"0","6","2">>, <<"c","r","e","a","t","e","_","s","t","a","t","s","_","v","i","e","w">>, "materialized_view",
        [view_name |-> <<"m","v","_","s","t","a","t","s">>,
         description |-> <<"C","r","e","a","t","e"," ","s","t","a","t","s"," ","v","i","e","w">>])

SeedSectors ==
    Migration(<<"0","7","1">>, <<"s","e","e","d","_","s","e","c","t","o","r","s">>, "seed",
        [table_name |-> <<"s","e","c","t","o","r","s">>,
         description |-> <<"S","e","e","d"," ","s","e","c","t","o","r","s">>])

WellFormedDefinitions ==
    {ExtUuid, ExtVector, TableSectors, TableQualified, IndexSectors,
     FunctionTouch, FunctionAudit, TriggerTouch, ViewDaily, MatViewStats,
     SeedSectors}

\* the entry with one key of its content left out
WithoutKey(migration, key) ==
    [migration EXCEPT !.content =
        [k \in (DOMAIN migration.content) \ {key} |-> migration.content[k]]]

MalformedDefinitions ==
    {WithoutKey(m, k) : m \in WellFormedDefinitions, k \in {"columns", "description", "table_name"}}
        \ WellFormedDefinitions

\* ------------------------------------------------------------------------
\* Hand-written SQL: statements a migration file may hold, each with the
\* kind and the names it states (kind "none": no construct of section 4.4)
\* ------------------------------------------------------------------------
Stmt(kind, name, on, text) ==
    [kind |-> kind, name |-> name, on |-> on, text |-> text]

Statements ==
    << Stmt("extension", <<"v","e","c","t","o","r">>, <<>>, <<"C","R","E","A","T","E"," ","E","X","T","E","N","S","I","O","N"," ","I","F"," ","N","O","T"," ","E","X","I","S","T","S"," ","\"","v","e","c","t","o","r","\"",";">>),
       Stmt("extension", <<"v","e","c","t","o","r">>, <<>>, <<"C","R","E","A","T","E"," ","E","X","T","E","N","S","I","O","N"," ","\"","v","e","c","t","o","r","\"",";">>),
       Stmt("table", <<"o","r","d","e","r","s">>, <<>>, <<"C","R","E","A","T","E"," ","T","A","B","L","E"," ","I","F"," ","N","O","T"," ","E","X","I","S","T","S"," ","o","r","d","e","r","s"," ","(","i","d"," ","I","N","T",")",";">>),
       Stmt("table", <<"o","r","d","e","r","s">>, <<>>, <<"C","R","E","A","T","E"," ","T","A","B","L","E"," ","o","r","d","e","r","s"," ","(","i","d"," ","I","N","T",")",";">>),
       Stmt("index", <<"i","d","x","_","o","r","d","e","r","s">>, <<>>, <<"C","R","E","A","T","E"," ","I","N","D","E","X"," ","I","F"," ","N","O","T"," ","E","X","I","S","T","S"," ","i","d","x","_","o","r","d","e","r","s"," ","O","N"," ","o","r","d","e","r","s"," ","(","i","d",")",";">>),
       Stmt("index", <<"i","d","x","_","o","r","d","e","r","s">>, <<>>, <<"C","R","E","A","T","E"," ","I","N","D","E","X"," ","i","d","x","_","o","r","d","e","r","s"," ","O","N"," ","o","r","d","e","r","s"," ","(","i","d",")",";">>),
       Stmt("function", <<"f">>, <<>>, <<"C","R","E","A","T","E"," ","O","R"," ","R","E","P","L","A","C","E"," ","F","U","N","C","T","I","O","N"," ","f","(",")"," ","R","E","T","U","R","N","S"," ","t","r","i","g","g","e","r"," ","A","S"," ","'","x","'",";">>),
       Stmt("function", <<"f">>, <<>>, <<"C","R","E","A","T","E"," ","F","U","N","C","T","I","O","N"," ","f","(",")"," ","R","E","T","U","R","N","S"," ","t","r","i","g","g","e","r"," ","A","S"," ","'","x","'",";">>),
       Stmt("trigger", <<"t","r","g","_","a">>, <<"o","r","d","e","r","s">>, <<"C","R","E","A","T","E"," ","T","R","I","G","G","E","R"," ","t","r","g","_","a"," ","B","E","F","O","R","E"," ","I","N","S","E","R","T"," ","O","N"," ","o","r","d","e","r","s"," ","F","O","R"," ","E","A","C","H"," ","R","O","W"," ","E","X","E","C","U","T","E"," ","F","U","N","C","T","I","O","N"," ","f","(",")",";">>),
       Stmt("view", <<"v","_","d","a","i","l","y">>, <<>>, <<"C","R","E","A","T","E"," ","V","I","E","W"," ","v","_","d","a","i","l","y"," ","A","S"," ","S","E","L","E","C","T"," ","1",";">>),
       Stmt("materialized_view", <<"m","v","_","s","t","a","t","s">>, <<>>, <<"C","R","E","A","T","E"," ","M","A","T","E","R","I","A","L","I","Z","E","D"," ","V","I","E","W"," ","m","v","_","s","t","a","t","s"," ","A","S"," ","S","E","L","E","C","T"," ","1",";">>),
       Stmt("seed", <<"s","e","c","t","o","r","s">>, <<>>, <<"I","N","S","E","R","T"," ","I","N","T","O"," ","s","e","c","t","o","r","s"," ","(","s","e","c","t","o","r","_","n","a","m","e",")"," ","V","A","L","U","E","S"," ","(","'","T","e","c","h","'",")",";">>),
       Stmt("none", <<>>, <<>>, <<"-","-"," ","M","A","T","E","R","I","A","L","I","Z","E","D"," ","l","a","t","e","r">>),
       Stmt("none", <<>>, <<>>, <<"S","E","L","E","C","T"," ","1",";">>) >>

\* the most statements one hand-written file holds
MaxConstructs ==
    2

\* the file made of the statements cs (indices into Statements), one per line
RECURSIVE FileOf(_)
FileOf(cs) ==
    IF cs = <<>> THEN <<>>
    ELSE Statements[Head(cs)].text \o <<"\n">> \o FileOf(Tail(cs))

ConstructLists ==
    UNION {[1..n -> 1..Len(Statements)] : n \in 1..MaxConstructs}

\* ------------------------------------------------------------------------
\* State
\* ------------------------------------------------------------------------
VARIABLES
    \* the pure pipeline render -> extract -> rollback on one input
    migration,        \* the catalog entry rendered, or NoMigration
    constructs,       \* the statements of a hand-written input
    sql_content,      \* the SQL text (or KeyError)
    extracted,        \* result of extract_object_info
    rollback_sql,     \* result of generate_rollback
    stage,            \* "input", "rendered", "extracted", "rolled", "raised"
    \* the two scripts run over one directory
    MIGRATIONS,       \* the catalog of generate_migrations.py
    files,            \* the working directory: file name -> content
    rollback_dir,     \* whether rollbacks/ exists
    rollbacks,        \* rollbacks/: file name -> content
    pc,               \* "idle", "gen" (generate_migrations.main), "rb" (generate_rollbacks.main)
    gen_i,            \* position of the loop over MIGRATIONS
    gen_start,        \* the directory when the running or last forward run started
    gen_log,          \* what the forward run printed: <<file name, "Created" / "Skipping">>
    gen_prev,         \* what the forward run before it printed, if that run completed
    migration_files,  \* the sorted list of generate_rollbacks.main
    rb_i,             \* position of the loop over migration_files
    rb_log,           \* what the rollback run printed: [file, obj]
    rb_prev,          \* rollbacks/ when the rollback run started, and whether the
                      \* run before it was a completed rollback run
    last_run,         \* how the last finished run ended, "none" after a hand edit
    runs,             \* runs started
    edits             \* hand edits made

pipeVars ==
    <<migration, constructs, sql_content, extracted, rollback_sql, stage>>

dirVars ==
    <<MIGRATIONS, files, rollback_dir, rollbacks, pc, gen_i, gen_start, gen_log,
      gen_prev, migration_files, rb_i, rb_log, rb_prev, last_run, runs, edits>>

vars ==
    <<pipeVars, dirVars>>

NoMigration ==
    [type |-> "none"]

NoObj ==
    Obj("", <<>>, None)

\* ------------------------------------------------------------------------
\* The pipeline  generate_migration -> extract_object_info ->
\* generate_rollback  on one catalog entry or one hand-written file
\* ------------------------------------------------------------------------
PipeIdle ==
    /\ migration = NoMigration
    /\ constructs = <<>>
    /\ sql_content = <<>>
    /\ extracted = NoObj
    /\ rollback_sql = <<>>
    /\ stage = "input"

DirIdle ==
    /\ MIGRATIONS = <<>>
    /\ files = <<>>
    /\ rollback_dir = FALSE
    /\ rollbacks = <<>>
    /\ pc = "idle"
    /\ gen_i = 0
    /\ gen_start = <<>>
    /\ gen_log = <<>>
    /\ gen_prev = <<>>
    /\ migration_files = <<>>
    /\ rb_i = 0
    /\ rb_log = <<>>
    /\ rb_prev = [succ |-> FALSE, dir |-> <<>>]
    /\ last_run = "none"
    /\ runs = 0
    /\ edits = 0

PipeInit ==
    /\ \/ /\ migration \in WellFormedDefinitions \cup MalformedDefinitions
          /\ constructs = <<>>
       \/ /\ migration = NoMigration
          /\ constructs \in ConstructLists
    /\ sql_content = <<>>
    /\ extracted = NoObj
    /\ rollback_sql = <<>>
    /\ stage = "input"
    /\ DirIdle

\* content = generate_migration(migration)
PipeRender ==
    /\ stage = "input"
    /\ migration # NoMigration
    /\ sql_content' = generate_migration(migration)
    /\ stage' = IF generate_migration(migration) = KeyError THEN "raised" ELSE "rendered"
    /\ UNCHANGED <<migration, constructs, extracted, rollback_sql, dirVars>>

\* a file written by hand: content = f.read()
PipeRead ==
    /\ stage = "input"
    /\ migration = NoMigration
    /\ sql_content' = FileOf(constructs)
    /\ stage' = "rendered"
    /\ UNCHANGED <<migration, constructs, extracted, rollback_sql, dirVars>>

\* obj_type, obj_name, dependent = extract_object_info(content)
PipeExtract ==
    /\ stage = "rendered"
    /\ extracted' = extract_object_info(sql_content)
    /\ stage' = "extracted"
    /\ UNCHANGED <<migration, constructs, sql_content, rollback_sql, dirVars>>

\* rollback_sql = generate_rollback(obj_type, obj_name, dependent)
PipeRollback ==
    /\ stage = "extracted"
    /\ rollback_sql' = generate_rollback(extracted.obj_type, extracted.obj_name, extracted.dependent)
    /\ stage' = "rolled"
    /\ UNCHANGED <<migration, constructs, sql_content, extracted, dirVars>>

PipeNext ==
    \/ PipeRender
    \/ PipeRead
    \/ PipeExtract
    \/ PipeRollback

SpecPipe ==
    PipeInit /\ [][PipeNext]_vars

\* ------------------------------------------------------------------------
\* File names and directories
\* ------------------------------------------------------------------------
\* the characters file names are made of, in ascending code point order
CodeOrder ==
    << "-", ".", "0","1","2","3","4","5","6","7","8","9",
       "A","B","C","D","E","F","G","H","I","J","K","L","M",
       "N","O","P","Q","R","S","T","U","V","W","X","Y","Z", "_",
       "a","b","c","d","e","f","g","h","i","j","k","l","m",
       "n","o","p","q","r","s","t","u","v","w","x","y","z" >>

CodePoint(c) ==
    CHOOSE i \in 1..Len(CodeOrder) : CodeOrder[i] = c

\* Python's order of str: a < b
RECURSIVE StrLess(_, _)
StrLess(a, b) ==
    IF b = <<>> THEN FALSE
    ELSE IF a = <<>> THEN TRUE
    ELSE IF Head(a) = Head(b) THEN StrLess(Tail(a), Tail(b))
    ELSE CodePoint(Head(a)) < CodePoint(Head(b))

\* list.sort() without reverse=True
RECURSIVE SortReverse_ascending(_)
SortReverse_ascending(S) ==
    IF S = {} THEN <<>>
    ELSE LET m == CHOOSE x \in S : \A y \in S : y = x \/ StrLess(x, y)
         IN  <<m>> \o SortReverse_ascending(S \ {m})

\* list.sort(reverse=True) of the names in S (names of one directory
\* are distinct, so the result does not depend on the order of listdir)
RECURSIVE SortReverse(_)
SortReverse(S) ==
    IF S = {} THEN <<>>
    ELSE LET m == CHOOSE x \in S : \A y \in S : y = x \/ StrLess(y, x)
         IN  <<m>> \o SortReverse(S \ {m})

\* the pattern searched anywhere in the name instead of matched at its start
reNumbered_unanchored(f) ==
    \E i \in 1..Len(f) :
        /\ i + 3 <= Len(f)
        /\ \A k \in 0..2 : f[i + k] \in Digit
        /\ f[i + 3] = "_"

\* re.match(r'^\d{3}_', f)
reNumbered(f) ==
    /\ Len(f) >= 4
    /\ \A k \in 1..3 : f[k] \in Digit
    /\ f[4] = "_"

\* filename = f"{migration['number']}_{migration['name']}.sql"
Filename(m) ==
    m.number \o <<"_">> \o m.name \o <<".","s","q","l">>

\* an empty directory
EmptyDir ==
    [f \in {} |-> <<>>]

\* a write that keeps a file that is already there
WriteFile_keepExisting(dir, f, text) ==
    IF f \in DOMAIN dir THEN dir
    ELSE [g \in (DOMAIN dir) \cup {f} |-> IF g = f THEN text ELSE dir[g]]

\* the directory dir with file f holding text
WriteFile(dir, f, text) ==
    [g \in (DOMAIN dir) \cup {f} |-> IF g = f THEN text ELSE dir[g]]

\* os.listdir('.'): the files and, once made, the directory rollbacks
listdir ==
    (DOMAIN files) \cup (IF rollback_dir THEN {<<"r","o","l","l","b","a","c","k","s">>} ELSE {})

\* ------------------------------------------------------------------------
\* generate_migrations.py: main, one action per iteration of its loop
\* ------------------------------------------------------------------------
\* the most runs of the two scripts, and the most hand edits between them
MaxRuns ==
    3

MaxEdits ==
    1

GenStart ==
    /\ pc = "idle"
    /\ runs < MaxRuns
    /\ pc' = "gen"
    /\ runs' = runs + 1
    /\ gen_i' = 1
    /\ gen_start' = files
    /\ gen_log' = <<>>
    /\ gen_prev' = IF last_run = "gen_done" THEN gen_log ELSE <<>>
    /\ last_run' = "none"
    /\ UNCHANGED <<MIGRATIONS, files, rollback_dir, rollbacks, migration_files,
                   rb_i, rb_log, rb_prev, edits, pipeVars>>

\* a writer that tests the wrong path and so finds no file
Exists_wrongPath(dir, filename) ==
    FALSE

\* os.path.exists(filepath)
Exists(dir, filename) ==
    filename \in DOMAIN dir

\* one iteration: skip an existing file, else render and write
GenStep ==
    /\ pc = "gen"
    /\ gen_i <= Len(MIGRATIONS)
    /\ LET m        == MIGRATIONS[gen_i]
           filename == Filename(m)
           content  == generate_migration(m)
       IN  IF Exists(files, filename)
           THEN /\ gen_log' = Append(gen_log, <<filename, "Skipping">>)
                /\ gen_i' = gen_i + 1
                /\ UNCHANGED <<files, pc, last_run>>
           ELSE IF content = KeyError
           THEN \* the exception leaves main: the run ends here
                /\ pc' = "idle"
                /\ last_run' = "gen_raised"
                /\ UNCHANGED <<files, gen_log, gen_i>>
           ELSE /\ files' = WriteFile(files, filename, content)
                /\ gen_log' = Append(gen_log, <<filename, "Created">>)
                /\ gen_i' = gen_i + 1
                /\ UNCHANGED <<pc, last_run>>
    /\ UNCHANGED <<MIGRATIONS, rollback_dir, rollbacks, gen_start, gen_prev,
                   migration_files, rb_i, rb_log, rb_prev, runs, edits, pipeVars>>

GenEnd ==
    /\ pc = "gen"
    /\ gen_i > Len(MIGRATIONS)
    /\ pc' = "idle"
    /\ last_run' = "gen_done"
    /\ UNCHANGED <<MIGRATIONS, files, rollback_dir, rollbacks, gen_i, gen_start,
                   gen_log, gen_prev, migration_files, rb_i, rb_log, rb_prev, runs,
                   edits, pipeVars>>

\* ------------------------------------------------------------------------
\* generate_rollbacks.py: main, one action per iteration of its loop
\* ------------------------------------------------------------------------
\* makedirs, listdir, the filter and the sort
RbStart ==
    /\ pc = "idle"
    /\ runs < MaxRuns
    /\ pc' = "rb"
    /\ runs' = runs + 1
    /\ rollback_dir' = TRUE
    /\ migration_files' =
           SortReverse({f \in listdir : EndsWith(f, <<".","s","q","l">>) /\ reNumbered(f)})
    /\ rb_i' = 1
    /\ rb_log' = <<>>
    /\ rb_prev' = [succ |-> last_run = "rb_done", dir |-> rollbacks]
    /\ last_run' = "none"
    /\ UNCHANGED <<MIGRATIONS, files, rollbacks, gen_i, gen_start, gen_log,
                   gen_prev, edits, pipeVars>>

\* the text written to rollbacks/down_<migration_file>
RollbackFileText(migration_file, content) ==
    LET obj          == extract_object_info(content)
        rollback_sql_ == generate_rollback(obj.obj_type, obj.obj_name, obj.dependent)
        desc_match   == reDescription(content)
        description  == IF desc_match.ok THEN desc_match.g1
                        ELSE <<"R","o","l","l","b","a","c","k"," ">> \o migration_file
    IN  <<"-","-"," ","R","o","l","l","b","a","c","k",":"," ">> \o description \o <<"\n">>
        \o rollback_sql_
        \o (IF obj.obj_type = "TABLE"
            THEN <<"\n","\n","-","-"," ","N","o","t","e",":"," ","T","h","i","s"," ","w","i","l","l"," ","c","a","s","c","a","d","e"," ","d","e","l","e","t","e"," ","a","l","l"," ","d","e","p","e","n","d","e","n","t"," ","o","b","j","e","c","t","s">>
            ELSE <<>>)
        \o <<"\n">>

RbStep ==
    /\ pc = "rb"
    /\ rb_i <= Len(migration_files)
    /\ LET migration_file == migration_files[rb_i]
           content        == files[migration_file]
           obj            == extract_object_info(content)
           rollback_file  == <<"d","o","w","n","_">> \o migration_file
       IN  IF generate_rollback(obj.obj_type, obj.obj_name, obj.dependent) = IndexError
           THEN \* the exception leaves main: the run ends here
                /\ pc' = "idle"
                /\ last_run' = "rb_raised"
                /\ UNCHANGED <<rollbacks, rb_log, rb_i>>
           ELSE /\ rollbacks' = WriteFile(rollbacks, rollback_file,
                                          RollbackFileText(migration_file, content))
                /\ rb_log' = Append(rb_log, [file |-> migration_file, obj |-> obj])
                /\ rb_i' = rb_i + 1
                /\ UNCHANGED <<pc, last_run>>
    /\ UNCHANGED <<MIGRATIONS, files, rollback_dir, gen_i, gen_start, gen_log,
                   gen_prev, migration_files, rb_prev, runs, edits, pipeVars>>

\* the lines  \i <migration_file>  of the master script
RECURSIVE Inclusions(_)
Inclusions(fs) ==
    IF fs = <<>> THEN <<>>
    ELSE <<"\\","i"," ">> \o Head(fs) \o <<"\n">> \o Inclusions(Tail(fs))

\* a master script that closes the transaction before the inclusions
MasterText_commitFirst(fs) ==
    <<"-","-"," ","C","o","m","p","l","e","t","e"," ","r","o","l","l","b","a","c","k"," ","o","f"," ","a","l","l"," ","m","i","g","r","a","t","i","o","n","s","\n">>
    \o <<"-","-"," ","R","u","n"," ","t","h","i","s"," ","t","o"," ","c","o","m","p","l","e","t","e","l","y"," ","r","e","m","o","v","e"," ","t","h","e"," ","s","c","h","e","m","a","\n","\n">>
    \o <<"B","E","G","I","N",";","\n","\n">>
    \o <<"\n","C","O","M","M","I","T",";","\n">>
    \o Inclusions(fs)

\* the text written to rollbacks/rollback_all.sql
MasterText(fs) ==
    <<"-","-"," ","C","o","m","p","l","e","t","e"," ","r","o","l","l","b","a","c","k"," ","o","f"," ","a","l","l"," ","m","i","g","r","a","t","i","o","n","s","\n">>
    \o <<"-","-"," ","R","u","n"," ","t","h","i","s"," ","t","o"," ","c","o","m","p","l","e","t","e","l","y"," ","r","e","m","o","v","e"," ","t","h","e"," ","s","c","h","e","m","a","\n","\n">>
    \o <<"B","E","G","I","N",";","\n","\n">>
    \o Inclusions(fs)
    \o <<"\n","C","O","M","M","I","T",";","\n">>

\* after the loop: the master rollback script
RbMaster ==
    /\ pc = "rb"
    /\ rb_i > Len(migration_files)
    /\ rollbacks' = WriteFile(rollbacks, <<"r","o","l","l","b","a","c","k","_","a","l","l",".","s","q","l">>, MasterText(migration_files))
    /\ pc' = "idle"
    /\ last_run' = "rb_done"
    /\ UNCHANGED <<MIGRATIONS, files, rollback_dir, gen_i, gen_start, gen_log,
                   gen_prev, migration_files, rb_i, rb_log, rb_prev, runs, edits,
                   pipeVars>>

\* ------------------------------------------------------------------------
\* The environment: the directory before the first run, and hand edits of
\* migration files between runs
\* ------------------------------------------------------------------------
Catalogs ==
    { <<ExtUuid, TableSectors, TriggerTouch>>,
      <<ExtVector, ViewDaily>>,
      <<ExtUuid, WithoutKey(TableSectors, "columns"), IndexSectors>> }

\* what a hand edit leaves in a migration file
HandTexts ==
    { FileOf(<<14>>),
      <<"-","-"," ","O","r","d","e","r","s","\n">> \o FileOf(<<3, 9>>) }

\* a migration written by hand, and files that are no migrations
ManualName ==
    <<"0","2","0","_","m","a","n","u","a","l",".","s","q","l">>

OtherFiles ==
    [f \in {<<"g","e","n","e","r","a","t","e","_","m","i","g","r","a","t","i","o","n","s",".","p","y">>, <<"g","e","n","e","r","a","t","e","_","r","o","l","l","b","a","c","k","s",".","p","y">>, <<"s","c","h","e","m","a",".","s","q","l">>, <<"9","9","9","_","n","o","t","e","s",".","t","x","t">>}
        |-> <<"x">>]

InitialDirs ==
    { OtherFiles, WriteFile(OtherFiles, ManualName, FileOf(<<12>>)) }

DirInit ==
    /\ MIGRATIONS \in Catalogs
    /\ files \in InitialDirs
    /\ rollback_dir = FALSE
    /\ rollbacks = EmptyDir
    /\ pc = "idle"
    /\ gen_i = 0
    /\ gen_start = EmptyDir
    /\ gen_log = <<>>
    /\ gen_prev = <<>>
    /\ migration_files = <<>>
    /\ rb_i = 0
    /\ rb_log = <<>>
    /\ rb_prev = [succ |-> FALSE, dir |-> <<>>]
    /\ last_run = "none"
    /\ runs = 0
    /\ edits = 0

\* the files of the directory that are forward migrations
MigrationNames ==
    {Filename(MIGRATIONS[k]) : k \in 1..Len(MIGRATIONS)} \cup {ManualName}

HandEdit ==
    /\ pc = "idle"
    /\ edits < MaxEdits
    /\ \E f \in (DOMAIN files) \cap MigrationNames, text \in HandTexts :
          /\ files[f] # text
          /\ files' = [files EXCEPT ![f] = text]
    /\ edits' = edits + 1
    /\ last_run' = "none"
    /\ UNCHANGED <<MIGRATIONS, rollback_dir, rollbacks, pc, gen_i, gen_start, gen_log,
                   gen_prev, migration_files, rb_i, rb_log, rb_prev, runs, pipeVars>>

Next ==
    \/ GenStart
    \/ GenStep
    \/ GenEnd
    \/ RbStart
    \/ RbStep
    \/ RbMaster
    \/ HandEdit

Init ==
    DirInit /\ PipeIdle

Spec ==
    Init /\ [][Next]_vars

\* ------------------------------------------------------------------------
\* Vocabulary of the properties
\* ------------------------------------------------------------------------
DigitOrder ==
    <<"0","1","2","3","4","5","6","7","8","9">>

DigitValue(c) ==
    (CHOOSE i \in 1..Len(DigitOrder) : DigitOrder[i] = c) - 1

\* the number a migration file name starts with
NumberOf(f) ==
    100 * DigitValue(f[1]) + 10 * DigitValue(f[2]) + DigitValue(f[3])

\* the forward migration files in the working directory
ForwardFiles ==
    (DOMAIN files) \cap MigrationNames

\* a forward run is under way or was the last thing that happened
InOrAfterGen ==
    pc = "gen" \/ last_run \in {"gen_done", "gen_raised"}

\* C1 (at-most-once generation): during a forward run and when it has
\* ended, every file that existed when the run started is still there with
\* the content it had then, and the run reports Created only for files
\* that did not exist when it started.
C1_AtMostOnce ==
    InOrAfterGen =>
        /\ \A f \in DOMAIN gen_start : f \in DOMAIN files /\ files[f] = gen_start[f]
        /\ \A k \in DOMAIN gen_log :
              gen_log[k][2] = "Created" => gen_log[k][1] \notin DOMAIN gen_start

\* a completed forward run that found a hand-edited migration in place
C1_Witness ==
    /\ last_run = "gen_done"
    /\ \E f \in (DOMAIN gen_start) \cap MigrationNames :
          gen_start[f] \in HandTexts /\ files[f] = gen_start[f]
    /\ \E k \in DOMAIN gen_log : gen_log[k][2] = "Skipping"

\* C2 (writer idempotence): a file absent when a forward run reaches its
\* entry is reported Created and then exists; when the next forward run
\* follows directly, the same entry is reported Skipping and the file is
\* the one the first run wrote.
C2_WriterIdempotent ==
    /\ InOrAfterGen =>
          \A k \in DOMAIN gen_log :
              /\ gen_log[k][1] = Filename(MIGRATIONS[k])
              /\ gen_log[k][1] \in DOMAIN files
              /\ (gen_log[k][2] = "Created") = (gen_log[k][1] \notin DOMAIN gen_start)
    /\ (InOrAfterGen /\ gen_prev # <<>>) =>
          \A k \in (DOMAIN gen_prev) \cap (DOMAIN gen_log) :
              gen_prev[k][2] = "Created" =>
                  /\ gen_log[k] = <<gen_prev[k][1], "Skipping">>
                  /\ files[gen_log[k][1]] = gen_start[gen_log[k][1]]

\* two forward runs in a row, the first of which created a file
C2_Witness ==
    /\ last_run = "gen_done"
    /\ \E k \in DOMAIN gen_prev :
          /\ gen_prev[k][2] = "Created"
          /\ gen_log[k][2] = "Skipping"

RECURSIVE SplitLines(_)
SplitLines(s) ==
    LET e == RunEndNot(s, 1, {"\n"})
    IN  IF e > Len(s) THEN <<s>>
        ELSE <<SubSeq(s, 1, e - 1)>> \o SplitLines(SubSeq(s, e + 1, Len(s)))

\* a line that is neither blank nor an SQL comment
IsStatementLine(l) ==
    l # <<>> /\ ~MatchAt(l, <<"-","-">>, 1)

\* psql's inclusion directive  \i <file>
IsDirective(l) ==
    MatchAt(l, <<"\\","i"," ">>, 1)

DirectiveTarget(l) ==
    SubSeq(l, 4, Len(l))

StripPrefix(s, p) ==
    IF MatchAt(s, p, 1) THEN SubSeq(s, Len(p) + 1, Len(s)) ELSE s

\* the forward migration a directive stands for, whether it names the
\* migration file or its rollback file
DirectiveMigration(l) ==
    StripPrefix(StripPrefix(DirectiveTarget(l), <<"r","o","l","l","b","a","c","k","s","/">>), <<"d","o","w","n","_">>)

MasterName ==
    <<"r","o","l","l","b","a","c","k","_","a","l","l",".","s","q","l">>

DownName(f) ==
    <<"d","o","w","n","_">> \o f

\* the statement lines of rollbacks/rollback_all.sql
MasterLines ==
    SelectSeq(SplitLines(rollbacks[MasterName]), IsStatementLine)

\* C6 (aggregate script targets): every inclusion directive of
\* rollbacks/rollback_all.sql names the rollback file down_<migration file>
\* of a forward migration (by its name in rollbacks/ or by its path from
\* the working directory), never the forward migration file.
C6_AggregateTargets ==
    MasterName \in DOMAIN rollbacks =>
        \A k \in DOMAIN MasterLines :
            IsDirective(MasterLines[k]) =>
                \E f \in MigrationNames :
                    \/ DirectiveTarget(MasterLines[k]) = DownName(f)
                    \/ DirectiveTarget(MasterLines[k]) = <<"r","o","l","l","b","a","c","k","s","/">> \o DownName(f)

\* C7 (aggregate script shape): after a completed rollback run the
\* statement lines of rollbacks/rollback_all.sql are BEGIN; then one
\* inclusion directive for each forward migration file of the working
\* directory, in strictly descending number order, then COMMIT;.
C7_AggregateShape ==
    last_run = "rb_done" =>
        LET L == MasterLines
            n == Len(L)
        IN  /\ n >= 2
            /\ L[1] = <<"B","E","G","I","N",";">>
            /\ L[n] = <<"C","O","M","M","I","T",";">>
            /\ \A k \in 2..(n - 1) : IsDirective(L[k])
            /\ {DirectiveMigration(L[k]) : k \in 2..(n - 1)} = ForwardFiles
            /\ n - 2 = Cardinality(ForwardFiles)
            /\ \A i, j \in 2..(n - 1) :
                  i < j => NumberOf(DirectiveMigration(L[i])) > NumberOf(DirectiveMigration(L[j]))

\* a master script that lists at least two migrations
C7_Witness ==
    /\ last_run = "rb_done"
    /\ Len(MasterLines) >= 4
    /\ IsDirective(MasterLines[2])
    /\ IsDirective(MasterLines[3])

\* C8 (catalog validation precedes all output): a forward run over a
\* catalog with a malformed entry (a content key its kind requires is
\* missing) writes no file: the directory stays as it was when the run
\* started.
C8_ValidationPrecedesOutput ==
    (InOrAfterGen /\ \E k \in DOMAIN MIGRATIONS : MIGRATIONS[k] \in MalformedDefinitions) =>
        /\ files = gen_start
        /\ \A k \in DOMAIN gen_log : gen_log[k][2] # "Created"

\* a text in which no pattern of extract_object_info can match
NoPatternText(t) ==
    ~Contains(t, <<"C","R","E","A","T","E"," ">>) /\ ~Contains(t, <<"I","N","S","E","R","T"," ","I","N","T","O"," ">>)

Placeholder ==
    <<"-","-"," ","T","O","D","O",":"," ","M","a","n","u","a","l"," ","r","o","l","l","b","a","c","k"," ","r","e","q","u","i","r","e","d"," ","f","o","r"," ","U","N","K","N","O","W","N"," ","u","n","k","n","o","w","n">>

\* C10 (graceful degradation): a rollback run never raises; a file in
\* which no pattern matches is logged as (UNKNOWN, unknown) and gets the
\* manual-rollback placeholder; after a completed run rollbacks/ holds
\* exactly rollback_all.sql and one down_<file> for every forward migration
\* file, whatever the files contain.
C10_GracefulDegradation ==
    /\ last_run # "rb_raised"
    /\ (pc = "rb" \/ last_run = "rb_done") => \A i \in DOMAIN rb_log :
          /\ DownName(rb_log[i].file) \in DOMAIN rollbacks
          /\ NoPatternText(files[rb_log[i].file]) =>
                /\ rb_log[i].obj = UnknownObj
                /\ Contains(rollbacks[DownName(rb_log[i].file)], Placeholder)
    /\ last_run = "rb_done" =>
          DOMAIN rollbacks = {DownName(f) : f \in ForwardFiles} \cup {MasterName}

\* a completed run that met a file without any pattern before a file
\* with one
C10_Witness ==
    /\ last_run = "rb_done"
    /\ \E i, j \in DOMAIN rb_log :
          /\ i < j
          /\ NoPatternText(files[rb_log[i].file])
          /\ rb_log[j].obj.obj_type \in {"EXTENSION", "TABLE"}

\* ------------------------------------------------------------------------
\* Properties of the pipeline
\* ------------------------------------------------------------------------
\* the object name a catalog entry declares
DeclaredName(m) ==
    CASE m.type = "extension" -> m.content.extension
      [] m.type = "table" -> m.content.table_name
      [] m.type = "index" -> m.content.index_name
      [] m.type = "function" -> m.content.function_name
      [] m.type = "trigger" -> m.content.trigger_name
      [] m.type \in {"view", "materialized_view"} -> m.content.view_name
      [] m.type = "seed" -> m.content.table_name

\* the name a DROP statement drops (the empty text if sql is no DROP
\* statement): what follows IF EXISTS, without its quotes
DropTarget(sql) ==
    LET lit == <<" ","I","F"," ","E","X","I","S","T","S"," ">>
        P   == {i \in 1..Len(sql) : MatchAt(sql, lit, i)}
        b   == MinOf(P) + Len(lit)
    IN  IF ~MatchAt(sql, <<"D","R","O","P"," ">>, 1) \/ P = {} THEN <<>>
        ELSE IF b <= Len(sql) /\ sql[b] = "\""
        THEN SubSeq(sql, b + 1, RunEndNot(sql, b + 1, {"\""}) - 1)
        ELSE SubSeq(sql, b, RunEndNot(sql, b, {" ", ";"}) - 1)

\* the kinds generate_migration has a template for
TemplatedKinds ==
    {"extension", "table", "index", "function", "trigger"}

\* the keys of a content that hold names of schema objects
NameKeys ==
    {"extension", "table_name", "index_name", "function_name", "trigger_name"}

\* every name of the entry is a plain identifier (for an extension: has no
\* quote, semicolon or white space)
PlainNames(m) ==
    \A k \in (DOMAIN m.content) \cap NameKeys :
        /\ m.content[k] # <<>>
        /\ \A i \in DOMAIN m.content[k] :
              IF k = "extension" THEN m.content[k][i] \notin ExtNameStop
              ELSE m.content[k][i] \in WordChar

\* no text of the entry holds a CREATE or INSERT statement of its own
NoForeignConstruct(m) ==
    \A k \in DOMAIN m.content :
        ~Contains(m.content[k], <<"C","R","E","A","T","E"," ">>) /\ ~Contains(m.content[k], <<"I","N","S","E","R","T"," ","I","N","T","O"," ">>)

\* the object type extract_object_info reports for a kind
TypeOfKind(kind) ==
    CASE kind = "extension" -> "EXTENSION"
      [] kind = "table" -> "TABLE"
      [] kind = "index" -> "INDEX"
      [] kind = "function" -> "FUNCTION"
      [] kind = "trigger" -> "TRIGGER"
      [] kind = "view" -> "VIEW"
      [] kind = "materialized_view" -> "MATERIALIZED VIEW"
      [] kind = "seed" -> "SEED"
      [] OTHER -> "UNKNOWN"

IsTriggerInput ==
    \/ migration \in WellFormedDefinitions /\ migration.type = "trigger"
    \/ Len(constructs) = 1 /\ Statements[constructs[1]].kind = "trigger"

TriggerName ==
    IF migration # NoMigration THEN migration.content.trigger_name
    ELSE Statements[constructs[1]].name

TriggerTable ==
    IF migration # NoMigration THEN migration.content.table_name
    ELSE Statements[constructs[1]].on

\* C4 (trigger extraction): a trigger statement extracts as (TRIGGER,
\* trigger name, dependent = the table it is attached to) and renders
\* DROP TRIGGER IF EXISTS <trigger> ON <table>;
C4_TriggerExtraction ==
    (stage = "rolled" /\ IsTriggerInput) =>
        /\ extracted = Obj("TRIGGER", TriggerName, TriggerTable)
        /\ rollback_sql = <<"D","R","O","P"," ","T","R","I","G","G","E","R"," ","I","F"," ","E","X","I","S","T","S"," ">> \o TriggerName
                              \o <<" ","O","N"," ">> \o TriggerTable \o <<";">>

\* the place of a kind, and of an object type, in the priority list
KindRank(kind) ==
    CASE kind = "extension" -> 1
      [] kind = "table" -> 2
      [] kind = "index" -> 3
      [] kind = "function" -> 4
      [] kind = "trigger" -> 5
      [] kind \in {"view", "materialized_view"} -> 6
      [] kind = "seed" -> 7

TypeRank(obj_type) ==
    CASE obj_type = "EXTENSION" -> 1
      [] obj_type = "TABLE" -> 2
      [] obj_type = "INDEX" -> 3
      [] obj_type = "FUNCTION" -> 4
      [] obj_type = "TRIGGER" -> 5
      [] obj_type \in {"VIEW", "MATERIALIZED VIEW"} -> 6
      [] obj_type = "SEED" -> 7
      [] OTHER -> 8

\* the places in the priority list of the constructs a hand-written file holds
ConstructRanks ==
    {KindRank(Statements[constructs[i]].kind) :
        i \in {j \in DOMAIN constructs : Statements[constructs[j]].kind # "none"}}

\* C9 (extraction priority): for a file that holds constructs of more
\* than one kind, extract_object_info reports the kind that comes first
\* in the priority list, whatever the order of the constructs in the text.
C9_ExtractionPriority ==
    (stage \in {"extracted", "rolled"} /\ Cardinality(ConstructRanks) >= 2) =>
        TypeRank(extracted.obj_type) = MinOf(ConstructRanks)

\* the input is a hand-written file of one statement
OneStatement ==
    migration = NoMigration /\ Len(constructs) = 1

\* C11 (optional-clause extraction): a file of one CREATE EXTENSION,
\* CREATE TABLE or CREATE INDEX statement, written with or without
\* IF NOT EXISTS, extracts as the statement's kind and name.
C11_OptionalClause ==
    (stage \in {"extracted", "rolled"} /\ OneStatement
        /\ Statements[constructs[1]].kind \in {"extension", "table", "index"}) =>
        /\ extracted.obj_type = TypeOfKind(Statements[constructs[1]].kind)
        /\ extracted.obj_name = Statements[constructs[1]].name

\* a text that is one SQL comment line
IsCommentLine(sql) ==
    MatchAt(sql, <<"-","-"," ">>, 1) /\ ~Contains(sql, <<"\n">>)

\* C12 (seed and unknown objects are never dropped): when the extraction
\* is a seed or unknown, the rendered rollback is one comment line that
\* names the object and holds no statement (so no DROP and no DELETE); a
\* file of one INSERT INTO statement extracts as the seed of its table.
C12_NoDestructiveFallback ==
    /\ (stage = "rolled" /\ extracted.obj_type \in {"SEED", "UNKNOWN"}) =>
          /\ IsCommentLine(rollback_sql)
          /\ Contains(rollback_sql, extracted.obj_name)
          /\ SelectSeq(SplitLines(rollback_sql), IsStatementLine) = <<>>
    /\ (stage \in {"extracted", "rolled"} /\ OneStatement
          /\ Statements[constructs[1]].kind = "seed") =>
          extracted = Obj("SEED", Statements[constructs[1]].name, None)

\* the rollback of the file  INSERT INTO sectors ...
C12_Witness ==
    /\ stage = "rolled"
    /\ constructs = <<12>>
    /\ extracted = Obj("SEED", <<"s","e","c","t","o","r","s">>, None)
    /\ rollback_sql = <<"-","-"," ","M","a","n","u","a","l"," ","r","o","l","l","b","a","c","k"," ","r","e","q","u","i","r","e","d"," ","f","o","r"," ","s","e","e","d"," ","d","a","t","a"," ","i","n"," ","t","a","b","l","e"," ","s","e","c","t","o","r","s">>

\* the places in a hand-written file of its CREATE ... VIEW statements
ViewPlaces ==
    {i \in DOMAIN constructs :
        Statements[constructs[i]].kind \in {"view", "materialized_view"}}

\* the CREATE ... VIEW statement the view pattern matches: the first one
MatchedView ==
    Statements[constructs[MinOf(ViewPlaces)]]

\* C14 (view classification follows the matched construct): when a
\* hand-written file extracts as a view of either kind, the kind is that
\* of the first CREATE ... VIEW statement of the file, whatever else the
\* file holds, and the rollback drops a view of that kind and name.
C14_ViewClassification ==
    (stage = "rolled" /\ migration = NoMigration
        /\ extracted.obj_type \in {"VIEW", "MATERIALIZED VIEW"}) =>
        /\ extracted.obj_type = TypeOfKind(MatchedView.kind)
        /\ extracted.obj_name = MatchedView.name
        /\ rollback_sql = <<"D","R","O","P"," ">> \o TypeText(TypeOfKind(MatchedView.kind))
                              \o <<" ","I","F"," ","E","X","I","S","T","S"," ">> \o MatchedView.name \o <<" ","C","A","S","C","A","D","E",";">>

\* ------------------------------------------------------------------------
\* Properties of repeated rollback runs
\* ------------------------------------------------------------------------
\* C13 (rollback generation is a reproducible derivation): a completed
\* rollback run that directly follows a completed rollback run (no forward
\* run and no hand edit between them) leaves rollbacks/ as the first run
\* left it; and after any completed rollback run every down_ file and the
\* master script hold the text derived from the forward files as they are
\* now, whatever an earlier run had left in them.
C13_ReproducibleDerivation ==
    /\ (last_run = "rb_done" /\ rb_prev.succ) => rollbacks = rb_prev.dir
    /\ last_run = "rb_done" =>
          /\ \A f \in ForwardFiles :
                rollbacks[DownName(f)] = RollbackFileText(f, files[f])
          /\ rollbacks[MasterName] = MasterText(SortReverse(ForwardFiles))

\* the second of two rollback runs in succession has completed over a
\* directory that holds forward migrations
C13_Witness ==
    /\ last_run = "rb_done"
    /\ rb_prev.succ
    /\ ForwardFiles # {}
    /\ \A f \in ForwardFiles : DownName(f) \in DOMAIN rb_prev.dir

\* a name the rollback run takes for a migration file
Selectable(f) ==
    EndsWith(f, <<".","s","q","l">>) /\ reNumbered(f)

\* the elements of a list
Range(seq) ==
    {seq[i] : i \in DOMAIN seq}

\* what holds of the names at every moment: nothing in rollbacks/ and not
\* the directory itself has the name of a migration file, and the list of
\* a rollback run holds files of the working directory only
OutputNeverInput ==
    /\ \A f \in (DOMAIN rollbacks) \cup {<<"r","o","l","l","b","a","c","k","s">>, <<"r","o","l","l","b","a","c","k","s","/">> \o MasterName} :
          ~Selectable(f)
    /\ \A f \in ForwardFiles : ~Selectable(DownName(f)) /\ ~Selectable(<<"r","o","l","l","b","a","c","k","s","/">> \o DownName(f))
    /\ pc = "rb" => Range(migration_files) = ForwardFiles

\* what holds of every step: a step of a rollback run leaves the working
\* directory as it is, and a rollback run that directly follows a completed
\* one lists as many migration files as that one
RollbackStepFrame ==
    /\ (pc = "rb" \/ pc' = "rb") => files' = files
    /\ (pc = "idle" /\ pc' = "rb" /\ last_run = "rb_done") =>
          Len(migration_files') = Len(migration_files)

\* C15 (rollback runs never touch their input and never consume their own
\* output): every step of a rollback run leaves every file of the working
\* directory unchanged; no file the run writes, nor the directory
\* rollbacks, is taken for a migration file; a run lists exactly the
\* forward migration files, and a run repeated at once lists as many as
\* the run before it.
C15_InputOutputDisjoint ==
    [](OutputNeverInput) /\ [][RollbackStepFrame]_vars

\* a rollback run that directly follows a completed one has listed the
\* files again, with the rollback files of the first run on disk
C15_Witness ==
    /\ pc = "rb"
    /\ rb_prev.succ
    /\ Len(migration_files) >= 2
    /\ \A i \in DOMAIN migration_files :
          DownName(migration_files[i]) \in DOMAIN rollbacks

====
